---- MODULE Spec2Model ----
(***************************************************************************)
(* A model of Quality.py, the Streamlit script of the QA dashboard.        *)
(*                                                                         *)
(* Streamlit executes the whole script top to bottom on every user event   *)
(* (a "run"), each time in a fresh namespace; only st.session_state and    *)
(* the widgets' own values survive from one run to the next.  The model    *)
(* follows one browser session: the position of the current run (pc), the  *)
(* names the run has bound so far, the session state, and the user events  *)
(* that trigger the next run.                                              *)
(*                                                                         *)
(* Text is a sequence of one-character strings, so that parsing, strip()   *)
(* and ", ".join() are computed and not assumed.  The 44 recognised        *)
(* columns are cut down to the ones some statement of the script reads,    *)
(* plus "MCN" as a pass-through column.                                    *)
(***************************************************************************)
EXTENDS Integers, Sequences, FiniteSets, TLC

\* ------------------------------------------------------------------ bounds

\* Most rows in an uploaded table whose rows differ in agent and durations.
MaxAggRows == 3

\* Most rows in any other uploaded table.
MaxRows == 2

\* Significand width of the floating-point numbers: float64 has 53 bits; the
\* model keeps the round-to-nearest-even arithmetic and shrinks the width so
\* that rounding happens on small numbers.
MantBits == 3

\* ------------------------------------------------------------- text cells

\* pandas' missing value in an object column (NaN / None).  No text is equal
\* to it: every element of a text is a single character.
NaN == <<"NaN">>

\* pandas' missing timestamp.  Parsed timestamps are >= 0.
NaT == -1

Digits == {"0", "1", "2", "3", "4", "5", "6", "7", "8", "9"}

DigitVal(c) ==
    CASE c = "0" -> 0 [] c = "1" -> 1 [] c = "2" -> 2 [] c = "3" -> 3
      [] c = "4" -> 4 [] c = "5" -> 5 [] c = "6" -> 6 [] c = "7" -> 7
      [] c = "8" -> 8 [] c = "9" -> 9

\* The characters of the model's texts, in code-point order.
Alphabet ==
    << " ", ",", "/", "0", "1", "2", "3", "4", "5", "6", "7", "8", "9",
       "A", "B", "C", "D", "F", "L", "N", "R", "S", "U", "V",
       "a", "c", "d", "e", "g", "h", "i", "k", "l", "n", "o", "r", "s", "t",
       "w", "x" >>

\* The rank of a character in code-point order.
Ord(c) == CHOOSE i \in 1..Len(Alphabet) : Alphabet[i] = c

\* Python's str < str: lexicographic by code point, a proper prefix first.
RECURSIVE StrLess(_, _)
StrLess(a, b) ==
    IF b = <<>> THEN FALSE
    ELSE IF a = <<>> THEN TRUE
    ELSE IF Ord(Head(a)) # Ord(Head(b)) THEN Ord(Head(a)) < Ord(Head(b))
    ELSE StrLess(Tail(a), Tail(b))

\* str.strip(): leading and trailing blanks removed.
RECURSIVE LStrip(_)
LStrip(s) == IF s # <<>> /\ Head(s) = " " THEN LStrip(Tail(s)) ELSE s

RECURSIVE RStrip(_)
RStrip(s) ==
    IF s # <<>> /\ s[Len(s)] = " " THEN RStrip(SubSeq(s, 1, Len(s) - 1)) ELSE s

Strip(s) == RStrip(LStrip(s))

\* ----------------------------------------------------------- float64 sums

Abs(x) == IF x < 0 THEN -x ELSE x

RECURSIVE Pow2(_)
Pow2(n) == IF n = 0 THEN 1 ELSE 2 * Pow2(n - 1)

\* The spacing of the representable numbers around x.
RECURSIVE UlpFrom(_, _)
UlpFrom(x, q) == IF Abs(x) < Pow2(MantBits) * q THEN q ELSE UlpFrom(x, 2 * q)

\* Round to nearest representable number, ties to even.
Round(x) ==
    LET q  == UlpFrom(x, 1)
        lo == (x \div q) * q
        r  == x - lo
    IN  IF 2 * r < q THEN lo
        ELSE IF 2 * r > q THEN lo + q
        ELSE IF (lo \div q) % 2 = 0 THEN lo ELSE lo + q

FAdd(a, b) == Round(a + b)
FSub(a, b) == Round(a - b)

\* Series.sum() of a float column: numpy adds the elements in row order
\* (pairwise blocking starts at 8 elements).
RECURSIVE SeqSum(_)
SeqSum(s) ==
    IF s = <<>> THEN 0 ELSE FAdd(SeqSum(SubSeq(s, 1, Len(s) - 1)), s[Len(s)])

\* groupby(...).agg("sum"): pandas' group_sum adds each group's values in row
\* order with Kahan compensation.  The state is <<sum, compensation>>.
RECURSIVE Kahan(_)
Kahan(s) ==
    IF s = <<>> THEN <<0, 0>>
    ELSE LET p    == Kahan(SubSeq(s, 1, Len(s) - 1))
             sumx == p[1]
             comp == p[2]
             y    == FSub(s[Len(s)], comp)
             t    == FAdd(sumx, y)
         IN  <<t, FSub(FSub(t, sumx), y)>>

GroupSum(s) == Kahan(s)[1]

\* ---------------------------------------------------------------- columns

\* COLUMNS_TO_KEEP, in the script's order, cut down to the columns a statement
\* of the script reads by name, and "MCN" for the ones it only carries along.
COLUMNS_TO_KEEP ==
    << "MCN", "Closing Status", "Date of Sale", "Call duration",
       "Work duration", "Quality Agent Name", "Validation", "Recording link",
       "Finish Date", "Assign Date" >>

date_cols == {"Date of Sale", "Finish Date", "Assign Date"}

REQUIRED_FIELDS == << "Assign Date", "Finish Date", "Recording link", "Validation" >>

Range(s) == {s[i] : i \in 1..Len(s)}

\* ---------------------------------------------------------- uploaded file

\* st.file_uploader returns None until the user uploads a file.
None == [kind |-> "none"]

\* An upload pd.read_csv cannot parse as a table.
Malformed == [kind |-> "malformed"]

\* A delimited text: a header row and the rows' cells, as text.
Csv(header, rows) == [kind |-> "csv", header |-> header, rows |-> rows]

\* Some of the texts pd.read_csv reads as missing: "", "NA", "NaN".
NA_VALUES == { <<>>, <<"N", "A">>, <<"N", "a", "N">> }

\* pd.read_csv: a DataFrame.  A row keeps its index label; its cells are the
\* texts of the file, or NaN.
ReadCsv(file) ==
    [ columns |-> file.header,
      rows    |-> [ i \in 1..Len(file.rows) |->
                     [ index |-> i - 1,
                       v     |-> [ c \in Range(file.header) |->
                                     IF file.rows[i][c] \in NA_VALUES
                                     THEN NaN ELSE file.rows[i][c] ] ] ] ]

\* ------------------------------------------------------------ conversions

IsNumeric(s) == s # NaN /\ Len(s) >= 1 /\ \A i \in 1..Len(s) : s[i] \in Digits

RECURSIVE NumberOf(_)
NumberOf(s) ==
    IF s = <<>> THEN 0
    ELSE 10 * NumberOf(SubSeq(s, 1, Len(s) - 1)) + DigitVal(s[Len(s)])

\* pd.to_numeric(x, errors='coerce').fillna(0): the nearest float of a decimal
\* text; 0 for a missing cell and for a text that is no number.
ToNumericFillna0(v) == IF IsNumeric(v) THEN Round(NumberOf(v)) ELSE 0

\* pd.to_datetime(x, dayfirst=True, errors='coerce') on the texts "d/m" and
\* "d/m h" (the day first, then the month, an optional hour): the hours since
\* the start of the year, every month taken as 31 days; NaT for a missing
\* cell and for any other text.
ToDatetime(v) ==
    IF v = NaN THEN NaT
    ELSE IF /\ Len(v) \in {3, 5}
            /\ v[1] \in Digits \ {"0"} /\ v[2] = "/" /\ v[3] \in Digits \ {"0"}
            /\ (Len(v) = 5 => v[4] = " " /\ v[5] \in Digits)
         THEN ((DigitVal(v[3]) - 1) * 31 + DigitVal(v[1]) - 1) * 24
              + (IF Len(v) = 5 THEN DigitVal(v[5]) ELSE 0)
         ELSE NaT

\* Timestamp.date(): the calendar day, the time of day dropped.
DateOf(ts) == ts \div 24

\* pd.isnull on a cell of the cleaned table: NaT in a converted date column,
\* NaN in a text column; a duration is a number after fillna(0).
IsNull(col, v) ==
    IF col \in date_cols THEN v = NaT
    ELSE IF col \in {"Call duration", "Work duration", "Duration Difference"} THEN FALSE
    ELSE v = NaN

\* str(value) as get_missing_columns uses it: a text is itself; a Timestamp
\* or a number prints as a non-blank text.
StrOf(col, v) ==
    IF col \in date_cols \cup {"Call duration", "Work duration", "Duration Difference"}
    THEN <<"T">> ELSE v

\* -------------------------------------------------- load_and_process_data

\* df_raw[[col for col in COLUMNS_TO_KEEP if col in df_raw.columns]]
Project(df) ==
    LET keep == SelectSeq(COLUMNS_TO_KEEP, LAMBDA c : c \in Range(df.columns))
    IN  [ columns |-> keep,
          rows    |-> [ i \in 1..Len(df.rows) |->
                         [ index |-> df.rows[i].index,
                           v     |-> [ c \in Range(keep) |-> df.rows[i].v[c] ] ] ] ]

\* df[col] = values, for a column the frame has: one value for each row.
MapColumn(df, col, values) ==
    [ df EXCEPT !.rows = [ i \in 1..Len(df.rows) |->
        [ df.rows[i] EXCEPT !.v = [ @ EXCEPT ![col] = values[i] ] ] ] ]

\* df[col] = values, for a new column.
AddColumn(df, col, values) ==
    [ columns |-> Append(df.columns, col),
      rows    |-> [ i \in 1..Len(df.rows) |->
                     [ index |-> df.rows[i].index,
                       v     |-> [ c \in Range(df.columns) \cup {col} |->
                                     IF c = col THEN values[i]
                                     ELSE df.rows[i].v[c] ] ] ] ]


RECURSIVE ConvertDates(_, _)
ConvertDates(df, cols) ==
    IF cols = {} THEN df
    ELSE LET col == CHOOSE c \in cols : TRUE
             d   == IF col \in Range(df.columns)
                    THEN MapColumn(df, col, [ i \in 1..Len(df.rows) |->
                                               ToDatetime(df.rows[i].v[col]) ])
                    ELSE df
         IN  ConvertDates(d, cols \ {col})

NoFrame == [columns |-> <<>>, rows |-> <<>>]

\* load_and_process_data(uploaded_file): the exception it raises ("" for
\* none) and the pair it returns.  @st.cache_data only saves recomputing a
\* pure function and is left out.
load_and_process_data(file) ==
    IF file.kind = "malformed"
    THEN [exc |-> "ParserError", df_raw |-> NoFrame, df_cleaned |-> NoFrame]
    ELSE LET df_raw == ReadCsv(file)
             p      == Project(df_raw)
         IN  IF "Call duration" \notin Range(p.columns)
                \/ "Work duration" \notin Range(p.columns)
             THEN [exc |-> "KeyError", df_raw |-> NoFrame, df_cleaned |-> NoFrame]
             ELSE LET n  == Len(p.rows)
                      c1 == MapColumn(p, "Call duration", [ i \in 1..n |->
                              ToNumericFillna0(p.rows[i].v["Call duration"]) ])
                      c2 == MapColumn(c1, "Work duration", [ i \in 1..n |->
                              ToNumericFillna0(p.rows[i].v["Work duration"]) ])
                      c3 == AddColumn(c2, "Duration Difference", [ i \in 1..n |->
                              FSub(c2.rows[i].v["Call duration"],
                                   c2.rows[i].v["Work duration"]) ])
                  IN  [ exc        |-> "",
                        df_raw     |-> df_raw,
                        df_cleaned |-> ConvertDates(c3, date_cols) ]

\* ----------------------------------------------------------------- frames

HasCol(df, c) == c \in Range(df.columns)

\* df[c] as the sequence of its values, in row order.
Col(df, c) == [i \in 1..Len(df.rows) |-> df.rows[i].v[c]]

\* df[mask]: the rows the mask keeps, in order, index labels kept.
Where(df, keep) == [df EXCEPT !.rows = SelectSeq(@, LAMBDA r : r \in keep)]

\* sorted(set of texts): ascending by str <.
RECURSIVE SortedTexts(_)
SortedTexts(S) ==
    IF S = {} THEN <<>>
    ELSE LET m == CHOOSE x \in S : \A y \in S \ {x} : StrLess(x, y)
         IN  <<m>> \o SortedTexts(S \ {m})

\* --------------------------------------------------------------- the state

VARIABLES
    uploaded_file,   \* the file in the uploader
    session_state,   \* st.session_state: key -> set of selected options
    date_widget,     \* the date_input's identity (its default) and value
    pc,              \* where the current run is
    ns,              \* the names the current run has bound: name -> value
    exc,             \* the exception that ended the run, "" for none
    ui               \* the widgets and messages the run has rendered

vars == <<uploaded_file, session_state, date_widget, pc, ns, exc, ui>>

\* A function with no argument: an empty namespace, an empty session state.
Empty == [x \in {} |-> x]

Bind(f, name, val) == (name :> val) @@ f

NoDateWidget == [id |-> <<>>, value |-> <<>>]

\* The run has ended: the script ran to its end, called st.stop(), or raised.
Ended == pc \in {"done", "stopped", "error"}

\* An uncaught exception ends the run; Streamlit shows it on the page.
Raise(e) == pc' = "error" /\ exc' = e

\* What survives a run that ended without an exception: Streamlit deletes
\* the state of every widget the run did not render, its session_state key
\* included.
Rendered(ss, w) ==
    [ k \in { j \in DOMAIN ss :
                \/ j = "selected_agents" /\ "agent_list" \in w
                \/ j = "selected_dispo_global" /\ "select_status" \in w
                \/ j = "selected_issues" /\ "filter_combinations" \in w } |-> ss[k] ]

\* What the date_input keeps: nothing, when the run did not render it.
KeptDateWidget(dw, w) == IF "date_input" \in w THEN dw ELSE NoDateWidget

\* st.multiselect(options=..., key=...): the widget takes its value from
\* st.session_state[key] and returns it.  A value that holds something outside
\* the options is refused by some Streamlit releases (StreamlitAPIException:
\* the value must exist in options), handed back as it is by others, and
\* reset to the empty default by those that treat the changed options as a
\* new widget.
Multiselect(options, value) ==
    IF value \subseteq options
    THEN { [exc |-> "", value |-> value] }
    ELSE { [exc |-> "StreamlitAPIException", value |-> value],
           [exc |-> "", value |-> value],
           [exc |-> "", value |-> {}] }

\* ------------------------------------------------- 3. load data (l. 42-48)

\* df_processed.dropna(subset=["Quality Agent Name"])
AgentScoped(df) ==
    Where(df, { r \in Range(df.rows) :
                  ~IsNull("Quality Agent Name", r.v["Quality Agent Name"]) })

LoadData ==
    /\ pc = "start"
    /\ UNCHANGED <<uploaded_file, session_state, date_widget, ui>>
    /\ IF uploaded_file.kind = "none"
       THEN pc' = "section6" /\ UNCHANGED <<ns, exc>>
       ELSE LET r   == load_and_process_data(uploaded_file)
                ns1 == Bind(Bind(Bind(ns, "df_raw", r.df_raw),
                                 "df_processed", r.df_cleaned),
                            "total_leads_in_sheet", Len(r.df_raw.rows))
            IN  IF r.exc # ""
                THEN Raise(r.exc) /\ UNCHANGED ns
                ELSE IF ~HasCol(r.df_cleaned, "Quality Agent Name")
                THEN Raise("KeyError") /\ ns' = ns1
                ELSE /\ ns' = Bind(ns1, "df_agents_full", AgentScoped(r.df_cleaned))
                     /\ pc' = "panel"
                     /\ UNCHANGED exc

\* -------------------------------------- dynamic filter panel (l. 50-85)

SeqMin(s) == CHOOSE x \in Range(s) : \A y \in Range(s) : x <= y
SeqMax(s) == CHOOSE x \in Range(s) : \A y \in Range(s) : x >= y

\* st.date_input(label, [min_d, max_d]): a widget is identified by its
\* arguments, so a changed default makes a new widget showing the default;
\* otherwise the widget keeps what the user picked.
DateInput(dw, default) ==
    IF dw.id = default THEN dw ELSE [id |-> default, value |-> default]

FilterPanel ==
    /\ pc = "panel"
    /\ UNCHANGED uploaded_file
    /\ LET df         == ns["df_agents_full"]
           all_agents == SortedTexts(Range(Col(df, "Quality Agent Name")))
           ss1        == IF "selected_agents" \in DOMAIN session_state
                         THEN session_state
                         ELSE Bind(session_state, "selected_agents", Range(all_agents))
           ns1        == Bind(ns, "all_agents", all_agents)
       IN  IF ~HasCol(df, "Date of Sale")
           THEN /\ Raise("KeyError")
                /\ session_state' = ss1
                /\ ns' = ns1
                /\ UNCHANGED <<date_widget, ui>>
           ELSE LET valid_dates == SelectSeq(Col(df, "Date of Sale"), LAMBDA t : t # NaT)
                    has         == valid_dates # <<>>
                    default     == <<DateOf(SeqMin(valid_dates)), DateOf(SeqMax(valid_dates))>>
                    dw          == IF has THEN DateInput(date_widget, default) ELSE date_widget
                    date_range  == IF has THEN dw.value ELSE <<>>
                    ns2         == Bind(ns1, "date_range", date_range)
                    ui1         == ui \cup {"select_all", "clear_all"}
                                      \cup (IF has THEN {"date_input"}
                                            ELSE {"No valid 'Date of Sale' found."})
                IN  \E m \in Multiselect(Range(all_agents), ss1["selected_agents"]) :
                      /\ date_widget' = dw
                      /\ session_state' = Bind(ss1, "selected_agents", m.value)
                      /\ IF m.exc # ""
                         THEN Raise(m.exc) /\ ns' = ns2 /\ ui' = ui1
                         ELSE /\ ns' = Bind(ns2, "selected_agents", m.value)
                              /\ ui' = ui1 \cup {"agent_list"}
                              /\ pc' = "filter"
                              /\ UNCHANGED exc

\* ------------------------------------------ apply final filters (l. 89-101)

\* AgentMask with an empty selection read as "no filter".
AgentMaskEmptyIsAll(r, selected_agents) ==
    selected_agents = {} \/ r.v["Quality Agent Name"] \in selected_agents

\* df_agents_full["Quality Agent Name"].isin(selected_agents)
AgentMask(r, selected_agents) == r.v["Quality Agent Name"] \in selected_agents

\* series.dt.date >= d and series.dt.date <= d, element by element: a
\* comparison with a missing date is False.
DateGE(ts, d) == ts # NaT /\ DateOf(ts) >= d

\* DateLE comparing the timestamp, not its calendar day, with the date.
DateLETimestamp(ts, d) == ts # NaT /\ ts <= d * 24

DateLE(ts, d) == ts # NaT /\ DateOf(ts) <= d

\* The date part of the mask, applied when date_range holds two dates.
DateMask(r, date_range) ==
    Len(date_range) = 2 =>
        /\ DateGE(r.v["Date of Sale"], date_range[1])
        /\ DateLE(r.v["Date of Sale"], date_range[2])

Mask(r, selected_agents, date_range) ==
    AgentMask(r, selected_agents) /\ DateMask(r, date_range)

\* A run that ends without an exception, at end \in {"stopped", "done"}.
EndRun(end, ss, w) ==
    /\ pc' = end
    /\ ui' = w
    /\ session_state' = Rendered(ss, w)
    /\ date_widget' = KeptDateWidget(date_widget, w)
    /\ UNCHANGED exc

\* st.stop(): the run ends here.
Stop(w) == EndRun("stopped", session_state, w)

ApplyFinalFilters ==
    /\ pc = "filter"
    /\ UNCHANGED uploaded_file
    /\ LET selected_agents == ns["selected_agents"]
           df_filtered     == Where(ns["df_agents_full"],
                                { r \in Range(ns["df_agents_full"].rows) :
                                    Mask(r, selected_agents, ns["date_range"]) })
       IN  /\ ns' = Bind(ns, "df_filtered", df_filtered)
           /\ IF selected_agents = {}
              THEN Stop(ui \cup {"Please select at least one agent."})
              ELSE IF df_filtered.rows = <<>>
              THEN Stop(ui \cup {"No data found for the selected criteria."})
              ELSE /\ pc' = "aggregate"
                   /\ UNCHANGED <<session_state, date_widget, exc, ui>>

\* ---------------------------------------- 4. aggregated statistics (l. 103-123)

\* ("col", "count"): the cells of a group that are not missing.
Count(values) == Len(SelectSeq(values, LAMBDA v : v # NaN))

\* Grouped with the gap summed from the wrong column.
GroupedGapFromCalls(df) ==
    LET keys == SortedTexts(Range(Col(df, "Quality Agent Name")) \ {NaN})
    IN  [ i \in 1..Len(keys) |->
            LET g == Where(df, { r \in Range(df.rows) :
                                   r.v["Quality Agent Name"] = keys[i] })
            IN  [ Quality_Agent_Name   |-> keys[i],
                  Total_Call_Duration  |-> GroupSum(Col(g, "Call duration")),
                  Total_Work_Duration  |-> GroupSum(Col(g, "Work duration")),
                  Total_Efficiency_Gap |-> GroupSum(Col(g, "Call duration")),
                  Total_Agent_Leads    |-> Count(Col(g, "Quality Agent Name")) ] ]

\* df.groupby("Quality Agent Name").agg(...).reset_index(): one row for each
\* distinct key, the keys ascending (groupby sorts them and drops a missing
\* key), each sum over the group's rows in row order.
Grouped(df) ==
    LET keys == SortedTexts(Range(Col(df, "Quality Agent Name")) \ {NaN})
    IN  [ i \in 1..Len(keys) |->
            LET g == Where(df, { r \in Range(df.rows) :
                                   r.v["Quality Agent Name"] = keys[i] })
            IN  [ Quality_Agent_Name   |-> keys[i],
                  Total_Call_Duration  |-> GroupSum(Col(g, "Call duration")),
                  Total_Work_Duration  |-> GroupSum(Col(g, "Work duration")),
                  Total_Efficiency_Gap |-> GroupSum(Col(g, "Duration Difference")),
                  Total_Agent_Leads    |-> Count(Col(g, "Quality Agent Name")) ] ]

Perms(n) == { f \in [1..n -> 1..n] : \A i, j \in 1..n : i # j => f[i] # f[j] }

\* sort_values(by="Total_Efficiency_Gap", ascending=False) with the default
\* kind="quicksort", which is not stable: the rows come out in descending
\* order of the key, rows with equal keys in an order the build decides.
SortValuesDesc(rows) ==
    { [i \in 1..Len(rows) |-> rows[f[i]]] :
        f \in { g \in Perms(Len(rows)) :
                  \A i \in 1..(Len(rows) - 1) :
                     rows[g[i]].Total_Efficiency_Gap >= rows[g[i + 1]].Total_Efficiency_Gap } }

\* The averages (l. 121-123) only colour and fill three cards and are left out.
AggregatedStatistics ==
    /\ pc = "aggregate"
    /\ UNCHANGED <<uploaded_file, session_state, date_widget, exc, ui>>
    /\ LET df == ns["df_filtered"]
       IN  \E Qa_stats \in SortValuesDesc(Grouped(df)) :
             /\ ns' = Bind(Bind(Bind(Bind(Bind(ns,
                        "Qa_stats", Qa_stats),
                        "leads_in_selection", Len(df.rows)),
                        "total_call_time", SeqSum(Col(df, "Call duration"))),
                        "total_work_time", SeqSum(Col(df, "Work duration"))),
                        "total_gap_sum", SeqSum(Col(df, "Duration Difference")))
             /\ pc' = "charts"

\* ------------------------------ 2, 2.1, 3. charts and table (l. 163-211)

\* groupby(keys).size() and value_counts(): how many rows carry each key.
CountBy(keys) ==
    [ k \in Range(keys) |-> Cardinality({ i \in 1..Len(keys) : keys[i] = k }) ]

\* The rows whose cell of the column is not missing.
Dropna(df, col) == Where(df, { r \in Range(df.rows) : r.v[col] # NaN })

\* The rows' pairs of two columns' cells.
Pairs(df, a, b) == [ i \in 1..Len(df.rows) |-> <<df.rows[i].v[a], df.rows[i].v[b]>> ]

\* The charts of section 2 and the table of section 3 only draw Qa_stats.
ValidationAnalysis ==
    /\ pc = "charts"
    /\ UNCHANGED <<uploaded_file, session_state, date_widget, ui>>
    /\ LET df == ns["df_filtered"]
       IN  IF ~HasCol(df, "Validation")
           THEN Raise("KeyError") /\ UNCHANGED ns
           ELSE /\ ns' = Bind(Bind(ns,
                           "validation_counts",
                           CountBy(Pairs(Dropna(df, "Validation"),
                                         "Quality Agent Name", "Validation"))),
                           "overall_val_counts",
                           CountBy(Col(Dropna(df, "Validation"), "Validation")))
                /\ pc' = "closing"
                /\ UNCHANGED exc

\* --------------- 4, 5. closing disposition, leads report (l. 213-267)

Unknown == <<"U", "n", "k", "n", "o", "w", "n">>

NotAssigned == <<"N", "o", "t", " ", "A", "s", "s", "i", "g", "n", "e", "d">>

\* series.fillna(text)
Fillna(v, text) == IF v = NaN THEN text ELSE v

\* GlobalFrame built from the agent-scoped view.
GlobalFrameAgentScoped(df_processed) ==
    LET df == AgentScoped(df_processed)
    IN  MapColumn(df, "Closing Status",
                  [ i \in 1..Len(df.rows) |->
                      Fillna(df.rows[i].v["Closing Status"], Unknown) ])

\* df_global: a copy of df_processed, the whole cleaned table, with the
\* missing closing statuses named 'Unknown'.
GlobalFrame(df_processed) ==
    MapColumn(df_processed, "Closing Status",
              [ i \in 1..Len(df_processed.rows) |->
                  Fillna(df_processed.rows[i].v["Closing Status"], Unknown) ])

\* df_global[df_global['Closing Status'].isin(selected_dispo_global)]
ClosingFilter(df_global, selected_dispo_global) ==
    Where(df_global, { r \in Range(df_global.rows) :
                         r.v["Closing Status"] \in selected_dispo_global })

\* to_csv(...) of the download button serialises df_closing_global and binds
\* nothing a later statement reads; the model keeps the frame.
ClosingDisposition ==
    /\ pc = "closing"
    /\ UNCHANGED <<uploaded_file, date_widget>>
    /\ IF ~HasCol(ns["df_processed"], "Closing Status")
       THEN Raise("KeyError") /\ UNCHANGED <<ns, session_state, ui>>
       ELSE LET df_global == GlobalFrame(ns["df_processed"])
                all_dispositions_global ==
                    SortedTexts(Range(Col(df_global, "Closing Status")))
                ss1 == IF "selected_dispo_global" \in DOMAIN session_state
                       THEN session_state
                       ELSE Bind(session_state, "selected_dispo_global",
                                 Range(all_dispositions_global))
                ns1 == Bind(Bind(ns, "df_global", df_global),
                            "all_dispositions_global", all_dispositions_global)
                ui1 == ui \cup {"dispo_all_global", "dispo_clear_global"}
            IN  \E m \in Multiselect(Range(all_dispositions_global),
                                     ss1["selected_dispo_global"]) :
                  /\ session_state' = Bind(ss1, "selected_dispo_global", m.value)
                  /\ IF m.exc # ""
                     THEN Raise(m.exc) /\ ns' = ns1 /\ ui' = ui1
                     ELSE LET df_closing_global == ClosingFilter(df_global, m.value)
                              ns2 == Bind(Bind(ns1, "selected_dispo_global", m.value),
                                          "df_closing_global", df_closing_global)
                              ui2 == ui1 \cup {"select_status"}
                          IN  /\ pc' = "section6"
                              /\ UNCHANGED exc
                              /\ IF m.value = {}
                                 THEN /\ ns' = ns2
                                      /\ ui' = ui2 \cup {"Please select at least one Closing Status to view global analysis."}
                                 ELSE IF df_closing_global.rows = <<>>
                                 THEN /\ ns' = ns2
                                      /\ ui' = ui2 \cup {"No data matches selection."}
                                 ELSE /\ ns' = Bind(Bind(ns2,
                                            "closing_counts_global",
                                            CountBy(Pairs(
                                                MapColumn(df_closing_global, "Quality Agent Name",
                                                    [ i \in 1..Len(df_closing_global.rows) |->
                                                        Fillna(df_closing_global.rows[i].v["Quality Agent Name"],
                                                               NotAssigned) ]),
                                                "Quality Agent Name", "Closing Status"))),
                                            "overall_global_counts",
                                            CountBy(Col(df_closing_global, "Closing Status")))
                                      /\ ui' = ui2

\* ------------------------- 6. data integrity alerts (l. 269-378)

\* The texts of the required fields' names.
FieldText(f) ==
    CASE f = "Assign Date" -> <<"A", "s", "s", "i", "g", "n", " ", "D", "a", "t", "e">>
      [] f = "Finish Date" -> <<"F", "i", "n", "i", "s", "h", " ", "D", "a", "t", "e">>
      [] f = "Recording link" ->
            <<"R", "e", "c", "o", "r", "d", "i", "n", "g", " ", "l", "i", "n", "k">>
      [] f = "Validation" -> <<"V", "a", "l", "i", "d", "a", "t", "i", "o", "n">>

\* sep.join(texts)
RECURSIVE Join(_, _)
Join(texts, sep) ==
    IF texts = <<>> THEN <<>>
    ELSE IF Len(texts) = 1 THEN texts[1]
    ELSE texts[1] \o sep \o Join(Tail(texts), sep)

\* df_filtered[REQUIRED_FIELDS].isnull().any(axis=1), for one row.
missing_mask(r) == \E f \in Range(REQUIRED_FIELDS) : IsNull(f, r.v[f])

\* get_missing_columns listing the fields in the order of the row's columns.
get_missing_columns_in_column_order(row) ==
    LET missing == SelectSeq(COLUMNS_TO_KEEP,
                     LAMBDA field : /\ field \in Range(REQUIRED_FIELDS)
                                    /\ \/ IsNull(field, row[field])
                                       \/ Strip(StrOf(field, row[field])) = <<>>)
    IN  Join([i \in 1..Len(missing) |-> FieldText(missing[i])], <<",", " ">>)

\* get_missing_columns(row), row given as its cells.
get_missing_columns(row) ==
    LET missing == SelectSeq(REQUIRED_FIELDS,
                     LAMBDA field : \/ IsNull(field, row[field])
                                    \/ Strip(StrOf(field, row[field])) = <<>>)
    IN  Join([i \in 1..Len(missing) |-> FieldText(missing[i])], <<",", " ">>)

\* The section is at module level: it runs whether or not a file was
\* uploaded, and reads df_filtered from the run's namespace.
MissingDataReport ==
    /\ pc = "section6"
    /\ UNCHANGED uploaded_file
    /\ IF "df_filtered" \notin DOMAIN ns
       THEN Raise("NameError") /\ UNCHANGED <<ns, session_state, date_widget, ui>>
       ELSE IF \E f \in Range(REQUIRED_FIELDS) : ~HasCol(ns["df_filtered"], f)
       THEN Raise("KeyError") /\ UNCHANGED <<ns, session_state, date_widget, ui>>
       ELSE LET flagged == Where(ns["df_filtered"],
                                 { r \in Range(ns["df_filtered"].rows) : missing_mask(r) })
            IN  IF flagged.rows = <<>>
                THEN /\ ns' = Bind(ns, "df_all_problems", flagged)
                     /\ EndRun("done", session_state,
                               ui \cup {"Excellent! All records in this selection are complete for Dates, Links, and Validation."})
                ELSE LET df_all_problems ==
                             AddColumn(flagged, "MISSING FIELDS",
                                 [ i \in 1..Len(flagged.rows) |->
                                     get_missing_columns(flagged.rows[i].v) ])
                         all_issue_types ==
                             SortedTexts(Range(Col(df_all_problems, "MISSING FIELDS")))
                         ss1 == IF "selected_issues" \in DOMAIN session_state
                                THEN session_state
                                ELSE Bind(session_state, "selected_issues",
                                          Range(all_issue_types))
                         ns1 == Bind(Bind(ns, "df_all_problems", df_all_problems),
                                     "all_issue_types", all_issue_types)
                         ui1 == ui \cup {"issue_all_btn", "issue_clear_btn"}
                     IN  \E m \in Multiselect(Range(all_issue_types), ss1["selected_issues"]) :
                           IF m.exc # ""
                           THEN /\ Raise(m.exc)
                                /\ session_state' = ss1
                                /\ ns' = ns1
                                /\ ui' = ui1
                                /\ UNCHANGED date_widget
                           ELSE LET df_problems ==
                                        Where(df_all_problems,
                                              { r \in Range(df_all_problems.rows) :
                                                  r.v["MISSING FIELDS"] \in m.value })
                                    ns2 == Bind(Bind(ns1, "selected_issues", m.value),
                                                "df_problems", df_problems)
                                    ui2 == ui1 \cup {"filter_combinations"}
                                    ss2 == Bind(ss1, "selected_issues", m.value)
                                IN  IF m.value = {}
                                    THEN /\ ns' = ns2
                                         /\ EndRun("done", ss2, ui2 \cup {"Please select at least one combination to view the report."})
                                    ELSE IF df_problems.rows = <<>>
                                    THEN /\ ns' = ns2
                                         /\ EndRun("done", ss2, ui2 \cup {"No leads found for this selection."})
                                    ELSE /\ ns' = Bind(ns2, "issue_counts",
                                                    CountBy(Col(df_problems, "MISSING FIELDS")))
                                         /\ EndRun("done", ss2, ui2)

\* ------------------------------------------------------------ user events

\* Every event ends with Streamlit running the script again, in a fresh
\* namespace.
Rerun == pc' = "start" /\ ns' = Empty /\ exc' = "" /\ ui' = {}

\* The days a user picks in the date_input: one day (a range half picked) or
\* a first and a last day.
PickDays == {0, 1}

DatePicks ==
    { <<a>> : a \in PickDays }
        \cup { p \in PickDays \X PickDays : p[1] <= p[2] }

RemoveFile ==
    /\ Ended
    /\ uploaded_file.kind # "none"
    /\ uploaded_file' = None
    /\ Rerun
    /\ UNCHANGED <<session_state, date_widget>>

PickDates ==
    /\ Ended
    /\ "date_input" \in ui
    /\ \E v \in DatePicks :
         /\ v # date_widget.value
         /\ date_widget' = [date_widget EXCEPT !.value = v]
    /\ Rerun
    /\ UNCHANGED <<uploaded_file, session_state>>

\* A click on a button: its on_click callback runs first, with the names of
\* the run that drew the button.
Click(button, key, value) ==
    /\ Ended
    /\ button \in ui
    /\ session_state' = Bind(session_state, key, value)
    /\ Rerun
    /\ UNCHANGED <<uploaded_file, date_widget>>

\* The user changes what a multiselect shows: any set of its options.
Pick(widget, key, options) ==
    /\ Ended
    /\ widget \in ui
    /\ \E S \in SUBSET options :
         /\ S # session_state[key]
         /\ session_state' = Bind(session_state, key, S)
    /\ Rerun
    /\ UNCHANGED <<uploaded_file, date_widget>>

select_all == Click("select_all", "selected_agents", Range(ns["all_agents"]))
clear_all == Click("clear_all", "selected_agents", {})
PickAgents == Pick("agent_list", "selected_agents", Range(ns["all_agents"]))

select_all_global ==
    Click("dispo_all_global", "selected_dispo_global", Range(ns["all_dispositions_global"]))
clear_all_global == Click("dispo_clear_global", "selected_dispo_global", {})
PickStatuses ==
    Pick("select_status", "selected_dispo_global", Range(ns["all_dispositions_global"]))

select_all_issues == Click("issue_all_btn", "selected_issues", Range(ns["all_issue_types"]))
clear_all_issues == Click("issue_clear_btn", "selected_issues", {})
PickIssues == Pick("filter_combinations", "selected_issues", Range(ns["all_issue_types"]))

UploadFile(files) ==
    /\ Ended
    /\ \E f \in files :
         /\ f # uploaded_file
         /\ uploaded_file' = f
    /\ Rerun
    /\ UNCHANGED <<session_state, date_widget>>

\* --------------------------------------------------------------- uploads

\* The header of the uploaded files: the recognised columns in an order of
\* its own, and a column the script does not know.
RawHeader ==
    << "Quality Agent Name", "Notes", "MCN", "Date of Sale", "Call duration",
       "Work duration", "Closing Status", "Assign Date", "Finish Date",
       "Recording link", "Validation" >>

\* A row of texts.  The fields left out are those of a complete lead of agent
\* "A", sold on 1 January, with a call of 2 and work of 1 minutes.
Lead(fields) ==
    fields @@
    [ c \in Range(RawHeader) |->
        CASE c = "Quality Agent Name" -> <<"A">>
          [] c = "Notes" -> <<"x">>
          [] c = "MCN" -> <<"1">>
          [] c = "Date of Sale" -> <<"1", "/", "1">>
          [] c = "Call duration" -> <<"2">>
          [] c = "Work duration" -> <<"1">>
          [] c = "Closing Status" -> <<"S">>
          [] c = "Assign Date" -> <<"1", "/", "1">>
          [] c = "Finish Date" -> <<"2", "/", "1">>
          [] c = "Recording link" -> <<"L">>
          [] c = "Validation" -> <<"V">> ]

\* The tables of at most n rows, each row one of the leads.
Tables(leads, n) ==
    { Csv(RawHeader, rows) : rows \in UNION { [1..k -> leads] : k \in 0..n } }

\* Leads that differ in agent and durations: a call of 7, 2 or 1 minutes, a
\* work duration that is a number, no number, or empty.
AggLeads ==
    { Lead(("Quality Agent Name" :> p[1]) @@ ("Call duration" :> p[2])
           @@ ("Work duration" :> p[3])) :
        p \in { << <<"A">>, <<"7">>, <<"x">> >>,
                << <<"A">>, <<"1">>, <<>> >>,
                << <<"B">>, <<"2">>, <<"x">> >>,
                << <<"B">>, <<"2">>, <<"1">> >>,
                << <<"B">>, <<"1">>, <<>> >> } }

\* Leads that differ in agent (none for an unassigned lead), date of sale
\* (with or without a time of day, or none) and closing status.
FilterLeads ==
    { Lead(("Quality Agent Name" :> p[1]) @@ ("Date of Sale" :> p[2])
           @@ ("Closing Status" :> p[3])) :
        p \in { << <<"A">>, <<"1", "/", "1", " ", "9">>, <<"S">> >>,
                << <<"A">>, <<"2", "/", "1">>, <<>> >>,
                << <<"B">>, <<>>, <<"S">> >>,
                << <<"B">>, <<"2", "/", "1", " ", "0">>, <<"L">> >>,
                << <<>>, <<"1", "/", "1">>, <<"S">> >>,
                << <<>>, <<"x">>, <<>> >> } }

\* Leads that differ in the required fields: present, empty, blank, or a
\* date that does not parse.
ProblemLeads ==
    { Lead(("Assign Date" :> p[1]) @@ ("Finish Date" :> p[2])
           @@ ("Recording link" :> p[3]) @@ ("Validation" :> p[4])) :
        p \in { << <<"1", "/", "1">>, <<"2", "/", "1">>, <<"L">>, <<"V">> >>,
                << <<"1", "/", "1">>, <<"2", "/", "1">>, <<"L">>, <<" ", " ">> >>,
                << <<"1", "/", "1">>, <<"2", "/", "1">>, <<"L">>, <<>> >>,
                << <<>>, <<"2", "/", "1">>, <<" ">>, <<"V">> >>,
                << <<>>, <<"2", "/", "1">>, <<>>, <<"V">> >>,
                << <<"1", "/", "1">>, <<"x">>, <<"L">>, <<"N", "A">> >>,
                << <<>>, <<>>, <<>>, <<>> >> } }

\* A table of two leads, one of them with no validation.
TwoLeads ==
    << Lead(("MCN" :> <<"1">>)),
       Lead(("Quality Agent Name" :> <<"B">>) @@ ("Validation" :> <<>>)
            @@ ("Closing Status" :> <<>>)) >>

\* TwoLeads with one column of the header left out.
WithoutColumn(c) ==
    LET header == SelectSeq(RawHeader, LAMBDA h : h # c)
    IN  Csv(header, [i \in 1..Len(TwoLeads) |->
                       [h \in Range(header) |-> TwoLeads[i][h]]])

SparseTables == { WithoutColumn(c) : c \in Range(RawHeader) }

\* A later upload: other agents, other statuses, a lead with a missing field.
NextUpload ==
    Csv(RawHeader,
        << Lead(("Quality Agent Name" :> <<"C">>) @@ ("Closing Status" :> <<"L">>)
                @@ ("Date of Sale" :> <<"3", "/", "1">>) @@ ("Finish Date" :> <<>>)),
           Lead(("Closing Status" :> <<>>)) >>)

\* A later upload with other agents and no 'Date of Sale' column.
SparseUpload == WithoutColumn("Date of Sale")

Reuploads == { NextUpload, SparseUpload, Malformed }

\* ------------------------------------------------------ the specification

\* The session starts with the first run of the script about to begin and
\* nothing in st.session_state.
InitWith(files) ==
    /\ uploaded_file \in files
    /\ session_state = Empty
    /\ date_widget = NoDateWidget
    /\ pc = "start"
    /\ ns = Empty
    /\ exc = ""
    /\ ui = {}

Next ==
    \/ LoadData
    \/ FilterPanel
    \/ ApplyFinalFilters
    \/ AggregatedStatistics
    \/ ValidationAnalysis
    \/ ClosingDisposition
    \/ MissingDataReport
    \/ UploadFile(Reuploads)
    \/ RemoveFile
    \/ PickDates
    \/ select_all
    \/ clear_all
    \/ PickAgents
    \/ select_all_global
    \/ clear_all_global
    \/ PickStatuses
    \/ select_all_issues
    \/ clear_all_issues
    \/ PickIssues

\* Uploads that differ in columns, agents, dates of sale and closing statuses.
Init == InitWith({None, Malformed} \cup SparseTables \cup Tables(FilterLeads, MaxRows))

Spec == Init /\ [][Next]_vars

\* Uploads that differ in agents and durations.
InitAgg == InitWith(Tables(AggLeads, MaxAggRows))

SpecAgg == InitAgg /\ [][Next]_vars

\* Uploads that differ in the required fields.
InitProblems == InitWith(Tables(ProblemLeads, MaxRows))

SpecProblems == InitProblems /\ [][Next]_vars

\* ================================================================ claims

Bound(name) == name \in DOMAIN ns

Rows(name) == Range(ns[name].rows)

\* ---------------------------------------------------------------------- C1

\* C1: whenever the agent filter has been applied with an empty
\* selected_agents, whatever the date range, the filtered view has no rows,
\* the run has stopped on "Please select at least one agent." and has
\* computed no statistics.
C1_EmptySelectionSelectsNothing ==
    (Bound("df_filtered") /\ ns["selected_agents"] = {}) =>
        /\ ns["df_filtered"].rows = <<>>
        /\ pc = "stopped"
        /\ "Please select at least one agent." \in ui
        /\ ~Bound("Qa_stats")

\* An empty selection applied to a non-empty agent-scoped view under an
\* active date range.
C1_Witness ==
    /\ Bound("df_filtered")
    /\ ns["selected_agents"] = {}
    /\ ns["df_agents_full"].rows # <<>>
    /\ Len(ns["date_range"]) = 2

\* ---------------------------------------------------------------------- C2

\* C2: once a parseable upload has been loaded, whichever recognised columns
\* it has, the cleaned table is bound and has as many rows as the raw table,
\* in the same order.
C2_RowCountPreserved ==
    (uploaded_file.kind = "csv" /\ pc # "start") =>
        /\ Bound("df_processed")
        /\ Len(ns["df_processed"].rows) = Len(uploaded_file.rows)
        /\ \A i \in 1..Len(uploaded_file.rows) : ns["df_processed"].rows[i].index = i - 1

\* ---------------------------------------------------------------------- C3

RECURSIVE Total(_, _)
Total(rows, field) ==
    IF rows = <<>> THEN 0 ELSE rows[1][field] + Total(Tail(rows), field)

\* Qa_stats[field].sum(): the column's floats added in the rows' order.
ColumnSum(rows, field) == SeqSum([i \in 1..Len(rows) |-> rows[i][field]])

NoRounding(df) ==
    Total([i \in 1..Len(df.rows) |-> df.rows[i].v], "Call duration")
        + Total([i \in 1..Len(df.rows) |-> df.rows[i].v], "Work duration")
            < Pow2(MantBits)

Missing(f, row) ==
    IF f \in date_cols THEN row[f] = NaT
    ELSE row[f] = NaN \/ \A i \in 1..Len(row[f]) : row[f][i] = " "

MissingFields(row) == { f \in Range(REQUIRED_FIELDS) : Missing(f, row) }

\* The names of a set of required fields, in the order REQUIRED_FIELDS
\* declares them, joined by ", ".
RECURSIVE Listed(_, _)
Listed(fields, from) ==
    IF from > Len(REQUIRED_FIELDS) THEN <<>>
    ELSE LET rest == Listed(fields, from + 1)
             f    == REQUIRED_FIELDS[from]
         IN  IF f \notin fields THEN rest
             ELSE IF rest = <<>> THEN FieldText(f)
             ELSE FieldText(f) \o <<",", " ">> \o rest

\* C4: two records of the filtered view that miss the same required fields
\* get the same signature from get_missing_columns, which lists the missing
\* fields in REQUIRED_FIELDS order joined by ", "; a record that misses none
\* is not in df_all_problems, and no record of df_all_problems, and no
\* group of the signature counts, carries the empty signature.
C4_SignatureCanonical ==
    Bound("df_all_problems") =>
        /\ \A r1, r2 \in Rows("df_filtered") :
             MissingFields(r1.v) = MissingFields(r2.v)
                 => get_missing_columns(r1.v) = get_missing_columns(r2.v)
        /\ \A r \in Rows("df_all_problems") :
             /\ MissingFields(r.v) # {}
             /\ r.v["MISSING FIELDS"] = Listed(MissingFields(r.v), 1)
             /\ r.v["MISSING FIELDS"] # <<>>
        /\ \A r \in Rows("df_filtered") :
             MissingFields(r.v) = {} =>
                 \A q \in Rows("df_all_problems") : q.index # r.index
        /\ Bound("issue_counts") => <<>> \notin DOMAIN ns["issue_counts"]

\* Two records in the problem set that miss the same two fields, one with a
\* blank text where the other has none, counted under one signature.
C4_Witness ==
    /\ Bound("issue_counts")
    /\ \E r1, r2 \in Rows("df_all_problems") :
         /\ r1.index # r2.index
         /\ r1.v["Recording link"] # r2.v["Recording link"]
         /\ Cardinality(MissingFields(r1.v)) = 2
         /\ MissingFields(r1.v) = MissingFields(r2.v)
         /\ ns["issue_counts"][r1.v["MISSING FIELDS"]] = 2

\* ---------------------------------------------------------------------- C5

\* C5: whenever the filter has been applied with a date range of two dates,
\* a row of the agent-scoped view is in the filtered view exactly if its agent
\* is selected, its Date of Sale is present, and the calendar day of its Date
\* of Sale lies between the two dates, both included.
C5_DateRangeMembership ==
    (Bound("df_filtered") /\ Len(ns["date_range"]) = 2) =>
        \A r \in Rows("df_agents_full") :
            r \in Rows("df_filtered") <=>
                /\ r.v["Quality Agent Name"] \in ns["selected_agents"]
                /\ r.v["Date of Sale"] # NaT
                /\ ns["date_range"][1] * 24 <= r.v["Date of Sale"]
                /\ r.v["Date of Sale"] < (ns["date_range"][2] + 1) * 24

\* Under an active range, a lead sold on the last day after midnight is kept
\* and a lead of a selected agent with no date of sale is dropped.
C5_Witness ==
    /\ Bound("df_filtered")
    /\ Len(ns["date_range"]) = 2
    /\ \E r \in Rows("df_filtered") :
         /\ r.v["Date of Sale"] \div 24 = ns["date_range"][2]
         /\ r.v["Date of Sale"] % 24 # 0
    /\ \E r \in Rows("df_agents_full") :
         /\ r.v["Date of Sale"] = NaT
         /\ r.v["Quality Agent Name"] \in ns["selected_agents"]
         /\ r \notin Rows("df_filtered")

\* ---------------------------------------------------------------------- C6

\* C6: a column missing from a parseable upload raises no error; the run goes
\* on to its other computations.
C6_MissingColumnTolerated ==
    uploaded_file.kind = "csv" => exc # "KeyError"

\* ---------------------------------------------------------------------- C7

\* C7: Qa_stats has one row for each distinct agent of the filtered view, in
\* descending order of Total_Efficiency_Gap, and of two agents with equal
\* Total_Efficiency_Gap the one with the smaller name comes first.
C7_OrderedWithTieBreak ==
    Bound("Qa_stats") =>
        LET q == ns["Qa_stats"]
        IN  /\ { q[i].Quality_Agent_Name : i \in 1..Len(q) }
                 = { r.v["Quality Agent Name"] : r \in Rows("df_filtered") }
            /\ \A i, j \in 1..Len(q) :
                 i < j =>
                    /\ q[i].Quality_Agent_Name # q[j].Quality_Agent_Name
                    /\ q[i].Total_Efficiency_Gap >= q[j].Total_Efficiency_Gap
                    /\ q[i].Total_Efficiency_Gap = q[j].Total_Efficiency_Gap
                         => StrLess(q[i].Quality_Agent_Name, q[j].Quality_Agent_Name)

\* ---------------------------------------------------------------------- C8

\* C8: a record of the filtered view is in the problem set exactly if one of
\* its required fields is missing, a blank text counting as missing.
C8_ProblemSetIsMissingRecords ==
    Bound("df_all_problems") =>
        \A r \in Rows("df_filtered") :
            (\E q \in Rows("df_all_problems") : q.index = r.index)
                <=> MissingFields(r.v) # {}

\* ---------------------------------------------------------------------- C9

\* C9, as claimed: the closing-status filter is applied to the agent-scoped
\* view only: no lead without a QA agent is in its result.
C9_ClosingFilterIsAgentScoped ==
    Bound("df_closing_global") =>
        \A r \in Rows("df_closing_global") : r.v["Quality Agent Name"] # NaN

\* C9, amended: the agent and date filters and the aggregation are applied
\* to the agent-scoped view only; the closing-status filter is applied to the
\* whole cleaned table, so its result holds every lead, assigned or not,
\* whose closing status ('Unknown' when absent) is selected, and the counts
\* by agent put the unassigned ones under 'Not Assigned'.
C9_ClosingFilterIsGlobal ==
    /\ Bound("df_filtered") =>
         \A r \in Rows("df_filtered") : r.v["Quality Agent Name"] # NaN
    /\ Bound("Qa_stats") =>
         \A i \in 1..Len(ns["Qa_stats"]) : ns["Qa_stats"][i].Quality_Agent_Name # NaN
    /\ Bound("df_closing_global") =>
         { r.index : r \in Rows("df_closing_global") }
             = { r.index : r \in
                   { p \in Rows("df_processed") :
                       \/ p.v["Closing Status"] \in ns["selected_dispo_global"]
                       \/ /\ p.v["Closing Status"] = NaN
                          /\ Unknown \in ns["selected_dispo_global"] } }
    /\ Bound("closing_counts_global") =>
         \A r \in Rows("df_closing_global") :
             r.v["Quality Agent Name"] = NaN
                 => <<NotAssigned, r.v["Closing Status"]>>
                        \in DOMAIN ns["closing_counts_global"]

\* A lead with no QA agent in the closing-status-filtered result, next to a
\* filtered view and statistics of the assigned leads.
C9_Witness ==
    /\ Bound("closing_counts_global")
    /\ \E r \in Rows("df_closing_global") : r.v["Quality Agent Name"] = NaN
    /\ \E r \in Rows("df_closing_global") : r.v["Quality Agent Name"] # NaN

\* --------------------------------------------------------------------- C10

\* C10: the missing-data section reads the filtered view only in a run that
\* has loaded an upload and computed the view; a run with no uploaded file
\* does not evaluate the section and ends without an error.
C10_NoUploadNoMissingDataSection ==
    /\ Bound("df_all_problems") => Bound("df_filtered") /\ uploaded_file.kind = "csv"
    /\ (uploaded_file.kind = "none" /\ Ended) => pc = "done" /\ exc = ""


\* ---------------------------------------------------------------- C11

\* The selection kept under a session_state key, and the value the run's
\* multiselect returned for it, lie within the options the run computed.
Within(key, domain) ==
    domain \in DOMAIN ns =>
        /\ key \in DOMAIN session_state => session_state[key] \subseteq Range(ns[domain])
        /\ key \in DOMAIN ns => ns[key] \subseteq Range(ns[domain])

\* C11: after any sequence of reruns (another upload, a change of the agent
\* selection or of the date range, Select All, Clear All) every selection
\* held in st.session_state is a subset of the options computed in the
\* current run: selected_agents of all_agents, selected_dispo_global of
\* all_dispositions_global, selected_issues of all_issue_types; no value
\* outside the current options reaches the filter.
C11_SelectionsWithinCurrentDomain ==
    /\ Within("selected_agents", "all_agents")
    /\ Within("selected_dispo_global", "all_dispositions_global")
    /\ Within("selected_issues", "all_issue_types")

============================================================================
